---- MODULE Spec2Model ----
(***************************************************************************)
(* A model of sGPUpt's driver (src/src/main.rs): the per-tree              *)
(* clone -> patch -> compile pipeline that main runs for the qemu and the  *)
(* edk2 tree, the literal-text patch step (replace_string_in_file), and    *)
(* the lspci -vmm parser (get_pci_devices).                                *)
(*                                                                         *)
(* Text is modelled as a sequence of symbols.  In the pipeline a symbol    *)
(* stands for one fragment of a source file (the fragments are cut where   *)
(* the old and new texts of the substitutions differ), so that             *)
(* str::replace is computed on the sequence exactly as Rust computes it on *)
(* the bytes.  The disk persists across runs of the program; a run is one  *)
(* execution of main.                                                      *)
(***************************************************************************)
EXTENDS Integers, Sequences, FiniteSets, TLC

\* Number of times the operator runs the program on the same disk.
MaxRuns == 2

\* Number of file reads and writes of the patch phases that fail, over all
\* runs.
MaxIoErrors == 1

Trees == {"qemu", "edk2"}

VARIABLES
    pc,         \* position of main in the current run
    run,        \* number of the current run
    dir,        \* dir[t]: what is at repo.path
    files,      \* files[t][f]: content of the patch targets of the tree
    marker,     \* marker[t]: <path>/<name>_patch_marker exists
    procs,      \* procs[p]: state of the child this run spawned for p
    input,      \* the line buffer of the last repo_clone call of this run
    prompt,     \* how the re-clone prompt of that call ended
    acq,        \* acq[t]: result of repo_clone in this run
    pat,        \* pat[t]: result of qemu_patch / edk2_patch in this run
    bld,        \* bld[t]: result of qemu_compile / edk2_compile in this run
    cloneAt,    \* what was at repo.path when that call started its clone
    hadMarker,  \* the marker existed when that call started
    nomatch,    \* nomatch[t]: in the patch phase that created the marker of
                \* t, some substitution found no occurrence of its old text
    ioErrors,   \* number of failed file reads and writes so far
    rep,        \* replace_string_in_file called on one file on its own
    pci         \* get_pci_devices called on one listing on its own

vars == <<pc, run, dir, files, marker, procs, input, prompt, acq, pat, bld,
          cloneAt, hadMarker, nomatch, ioErrors, rep, pci>>

----------------------------------------------------------------------------
(* str helpers                                                             *)

\* str::contains: pat occurs in s as a contiguous subsequence.
Contains(s, p) ==
    \E i \in 1..(Len(s) - Len(p) + 1) : SubSeq(s, i, i + Len(p) - 1) = p

\* str::replace(old, new): every non-overlapping occurrence, left to right.
RECURSIVE StrReplace(_, _, _)
StrReplace(s, old, new) ==
    IF Len(s) < Len(old) THEN s
    ELSE IF SubSeq(s, 1, Len(old)) = old
         THEN new \o StrReplace(SubSeq(s, Len(old) + 1, Len(s)), old, new)
         ELSE <<s[1]>> \o StrReplace(Tail(s), old, new)

Whitespace == {" ", "\n", "\t", "\r"}

RECURSIVE TrimStart(_)
TrimStart(s) ==
    IF s # <<>> /\ s[1] \in Whitespace THEN TrimStart(Tail(s)) ELSE s

RECURSIVE TrimEnd(_)
TrimEnd(s) ==
    IF s # <<>> /\ s[Len(s)] \in Whitespace
    THEN TrimEnd(SubSeq(s, 1, Len(s) - 1)) ELSE s

\* str::trim
Trim(s) == TrimEnd(TrimStart(s))

LowerOf(c) ==
    CASE c = "Y" -> "y"
      [] c = "E" -> "e"
      [] c = "S" -> "s"
      [] c = "N" -> "n"
      [] c = "O" -> "o"
      [] OTHER -> c

\* str::to_lowercase
ToLowercase(s) == [i \in 1..Len(s) |-> LowerOf(s[i])]

----------------------------------------------------------------------------
(* The patch specs: one record per replace_string_in_file call, in the     *)
(* order of the calls.                                                     *)

Sub(f, old, new) == [file |-> f, old |-> old, new |-> new]

QemuSubs == <<
    Sub("block/bochs.c", <<"fmt=bochs">>, <<"fmt=woots">>),
    Sub("hw/i386/fw_cfg.c", <<"dma+4", "\n", " ", "*/">>, <<"dma+4">>),
    Sub("hw/i386/fw_cfg.c", <<"/*ui", " ", "*/">>, <<"/*ui", " ">>),
    Sub("hw/i386/fw_cfg.c", <<"aml_append">>, <<"aml_append", " ", "*/">>),
    Sub("hw/scsi/scsi-disk.c", <<"vendor=QEMU">>, <<"vendor=<WOOT>">>),
    Sub("hw/scsi/scsi-disk.c", <<"product=QEMU HARDDISK">>,
                               <<"product=WDC WD20EARS">>),
    Sub("hw/scsi/scsi-disk.c", <<"product=QEMU CD-ROM">>,
                               <<"product=TOSHIBA DVD-ROM">>),
    Sub("hw/smbios/smbios.c", <<"ext[1]=0x14">>, <<"ext[1]=0x08">>),
    Sub("hw/usb/dev-wacom.c", <<"QEMU PenPartner tablet">>,
                              <<"WOOT PenPartner tablet">>),
    Sub("hw/usb/dev-wacom.c", <<"QEMU PenPartner Tablet">>,
                              <<"WOOT PenPartner Tablet">>),
    Sub("hw/usb/dev-wacom.c", <<"MANUFACTURER=QEMU">>,
                              <<"MANUFACTURER=WOOT">>),
    Sub("include/hw/acpi/aml-build.h",
        <<"APPNAME6=BOCHS ", "\n", "APPNAME4=BXPC">>,
        <<"APPNAME6=ALASKA ", "\n", "APPNAME4=RCKS">>),
    Sub("target/i386/kvm/kvm.c", <<"KVMKVMKVM">>, <<"GenuineIntel">>) >>

Edk2Subs == <<
    Sub("MdeModulePkg/MdeModulePkg.dec", <<"OemTableId=324B4445">>,
                                         <<"OemTableId=324B4544">>),
    Sub("OvmfPkg/AcpiTables/Dsdt.asl", <<"DSDT INTEL OVMF">>,
                                       <<"DSDT INTEL WOOT">>),
    Sub("OvmfPkg/AcpiTables/Platform.h",
        <<"OEM_ID=OVMF", "\n", "OEM_TABLE_ID=OVMFEDK2", "\n",
          "OEM_REVISION=20130221", "\n", "CREATOR_ID=OVMF", "\n",
          "CREATOR_REVISION=99">>,
        <<"OEM_ID=WOOT", "\n", "OEM_TABLE_ID=WOOTNOOB", "\n",
          "OEM_REVISION=20201230", "\n", "CREATOR_ID=NOOB", "\n",
          "CREATOR_REVISION=98">>),
    Sub("OvmfPkg/AcpiTables/Ssdt.asl", <<"SSDT REDHAT OVMF">>,
                                       <<"SSDT <WOOT> WOOT">>),
    Sub("OvmfPkg/SmbiosPlatformDxe/SmbiosPlatformDxe.c",
        <<"Vendor=EDK II / OVMF", "\n", "BiosVersion=0.0.0", "\n",
          "BiosReleaseDate=02/06/2015">>,
        <<"Vendor=American Megatrends", "\n", "BiosVersion=1.6.0", "\n",
          "BiosReleaseDate=12/01/2020">>) >>

Subs(t) == IF t = "qemu" THEN QemuSubs ELSE Edk2Subs

PatchFiles(t) == {Subs(t)[i].file : i \in 1..Len(Subs(t))}

\* The old texts of the substitutions of file f, in the order of the calls,
\* each followed by unrelated text: the file as the clone writes it.
RECURSIVE OldTexts(_, _, _)
OldTexts(subs, f, i) ==
    IF i > Len(subs) THEN <<>>
    ELSE (IF subs[i].file = f THEN subs[i].old \o <<"...">> ELSE <<>>)
         \o OldTexts(subs, f, i + 1)

Upstream(t) == [f \in PatchFiles(t) |-> <<"...">> \o OldTexts(Subs(t), f, 1)]

\* Nothing at repo.path.
NoFiles(t) == [f \in PatchFiles(t) |-> <<>>]

----------------------------------------------------------------------------
(* replace_string_in_file                                                  *)

\* What the file system does to one call: every read and write succeeds,
\* read_to_string fails, fs::write fails before it truncates the file, or
\* fs::write fails after it truncated the file.
IoOutcomes == {"ok", "read_err", "write_err", "write_err_truncated"}

\* One call on a file holding `content`: the Result and the file afterwards.
ReplaceStringInFile(content, old, new, io) ==
    CASE io = "read_err" -> [res |-> "Err", content |-> content]
      [] io = "write_err" -> [res |-> "Err", content |-> content]
      [] io = "write_err_truncated" -> [res |-> "Err", content |-> <<>>]
      [] OTHER -> [res |-> "Ok", content |-> StrReplace(content, old, new)]

\* Every call reads the file as the clone wrote it: of the first n
\* substitutions only the last one of each file shows.
ApplySubs_ReadsOriginal(fs, subs, n) ==
    [f \in DOMAIN fs |->
        LET mine == {i \in 1..n : subs[i].file = f}
        IN  IF mine = {} THEN fs[f]
            ELSE LET last == CHOOSE i \in mine : \A j \in mine : j <= i
                 IN  StrReplace(fs[f], subs[last].old, subs[last].new)]

\* The files after the first n substitutions of subs succeeded, in order.
RECURSIVE ApplySubs(_, _, _)
ApplySubs(fs, subs, n) ==
    IF n = 0 THEN fs
    ELSE LET before == ApplySubs(fs, subs, n - 1)
             s == subs[n]
         IN  [before EXCEPT ![s.file] =
                 ReplaceStringInFile(@, s.old, s.new, "ok").content]

\* The substitutions among the first n that found no occurrence of their
\* old text in the file they read.
NoMatch(fs, subs, n) ==
    {i \in 1..n :
        ~Contains(ApplySubs(fs, subs, i - 1)[subs[i].file], subs[i].old)}

----------------------------------------------------------------------------
(* The disk and the child processes                                        *)

\* What is at repo.path: nothing, a clone whose checkout of the tag failed,
\* or a clone checked out at the tag.
DirStates == {"absent", "cloned", "tagged"}

Tree(t) == [dir |-> dir[t], files |-> files[t], marker |-> marker[t]]

\* remove_dir_all that deletes the sources and leaves the other files.
RemoveDirAll_KeepsMarker(tree, t) ==
    [dir |-> "absent", files |-> NoFiles(t), marker |-> tree.marker]

\* fs::remove_dir_all(&repo.path) succeeding: the directory and everything
\* in it, the marker included, is gone.
RemoveDirAll(tree, t) ==
    [dir |-> "absent", files |-> NoFiles(t), marker |-> FALSE]

\* fs::remove_dir_all failing: it stops at the first entry it cannot delete;
\* the directory is still there, the marker may already be deleted.
RemoveDirAllFailed(tree, markerGone) ==
    [tree EXCEPT !.marker = tree.marker /\ ~markerGone]

CloneOutcomes == {"ok", "clone_err", "checkout_err"}

\* RepoBuilder::clone followed by revparse_single and checkout_tree.  The
\* clone refuses a destination that exists and is not empty and removes what
\* it created when it fails; a failed revparse_single or checkout_tree leaves
\* the clone where it is.
GitCloneCheckout(tree, t, out) ==
    IF tree.dir # "absent" \/ out = "clone_err"
    THEN [tree |-> tree, res |-> "CloneError"]
    ELSE IF out = "checkout_err"
    THEN [tree |-> [tree EXCEPT !.dir = "cloned", !.files = Upstream(t)],
          res |-> "CheckoutError"]
    ELSE [tree |-> [tree EXCEPT !.dir = "tagged", !.files = Upstream(t)],
          res |-> "Ok"]

\* The lines the operator may type at the prompt (<<>> is end of input).
Responses ==
    { <<"y", "\n">>, <<"Y", "E", "S", "\n">>, <<" ", "y", "e", "s", " ", "\n">>,
      <<"n", "\n">>, <<"\n">>, <<>>, <<"y", "e", "\n">>, <<"N", "o", "\n">> }

\* starts_with("y") in place of the comparison with "y" and "yes".
IsYes_Prefix(line) ==
    LET response == ToLowercase(Trim(line))
    IN  response # <<>> /\ response[1] = "y"

\* response == "yes" || response == "y", on input.trim().to_lowercase()
IsYes(line) ==
    LET response == ToLowercase(Trim(line))
    IN  response = <<"y", "e", "s">> \/ response = <<"y">>

\* The commands each compile function spawns, in order.
BuildCmds(t) ==
    IF t = "qemu" THEN <<"qemu:./configure", "qemu:make">>
    ELSE <<"edk2:make", "edk2:. edksetup.sh", "edk2:. build.sh">>

\* A path: absolute or not, and its components.
\* Repo.path: Path::new("./qemu/"), Path::new("./edk2/").
RepoPath(t) == [abs |-> FALSE, comps |-> <<".", t>>]

\* Path::join: an absolute argument replaces the path it is joined to.
PathJoin(base, p) ==
    IF p.abs THEN p ELSE [abs |-> base.abs, comps |-> base.comps \o p.comps]

\* current_dir of each command of BuildCmds(t), in the same order.
BuildCwds(t) ==
    IF t = "qemu" THEN <<RepoPath(t), RepoPath(t)>>
    ELSE <<RepoPath(t), RepoPath(t),
           PathJoin(RepoPath(t), [abs |-> TRUE, comps |-> <<"OvmfPkg">>])>>

Progs ==
    UNION {{BuildCmds(t)[i] : i \in 1..Len(BuildCmds(t))} : t \in Trees}
        \cup {"apt"}

ProcStates == {"none", "running", "exit0", "exit1"}

\* A marker check that looks at the wrong path.
IsPatched_Never(t) == FALSE

\* The marker path exists.
IsPatched(t) == marker[t]

----------------------------------------------------------------------------
(* main                                                                    *)

Terminal == {"exit_ok", "exit_err", "panicked"}

NoneYet == [t \in Trees |-> "none"]

disk == <<dir, files, marker, nomatch>>
env == <<run, procs, ioErrors>>
units == <<rep, pci>>

\* No call of replace_string_in_file or get_pci_devices on its own.
NoRep == [file |-> <<>>, old |-> <<>>, new |-> <<>>, calls |-> 0,
          res |-> "none", io |-> "none", found |-> FALSE, before |-> <<>>]
NoPci == [text |-> <<>>, done |-> FALSE, devices |-> <<>>]

InitPipeline ==
    /\ pc = "start"
    /\ run = 1
    /\ dir = [t \in Trees |-> "absent"]
    /\ files = [t \in Trees |-> NoFiles(t)]
    /\ marker = [t \in Trees |-> FALSE]
    /\ procs = [p \in Progs |-> "none"]
    /\ input = <<>>
    /\ prompt = "none"
    /\ acq = NoneYet
    /\ pat = NoneYet
    /\ bld = NoneYet
    /\ cloneAt = "none"
    /\ hadMarker = FALSE
    /\ nomatch = [t \in Trees |-> FALSE]
    /\ ioErrors = 0

Init ==
    /\ InitPipeline
    /\ rep = NoRep
    /\ pci = NoPci

acquireVars == <<input, prompt, acq, cloneAt, hadMarker>>

\* A call whose only effect on the model is whether main goes on: `next` on
\* success, otherwise main returns the error (`?`) or panics (unwrap, expect).
Step(here, next, outcomes) ==
    /\ pc = here
    /\ \E o \in outcomes :
          pc' = CASE o = "ok" -> next
                  [] o = "err" -> "exit_err"
                  [] OTHER -> "panicked"
    /\ UNCHANGED <<env, disk, acquireVars, pat, bld, units>>

\* get_pci_devices(): expect on running lspci, unwrap on from_utf8.
MainGetPciDevices == Step("start", "cpuinfo", {"ok", "panic"})

\* procfs::CpuInfo::new()? and the unwraps on model_name, flags, vendor_id.
MainCpuInfo == Step("cpuinfo", "security", {"ok", "err", "panic"})

\* What security_checks probes: SUDO_USER, the flags of cpu 0, whether
\* /sys/firmware/efi exists, and /sys/class/iommu/.
SudoUser == {"set", "unset"}
CpuFlagSets == SUBSET {"svm", "vmx"}
EfiDir == {"exists", "missing"}
IommuDir == {"entries", "empty", "missing"}

\* security_checks: three probes only log; read_dir("/sys/class/iommu/")
\* is unwrapped, so a directory that cannot be read panics before the
\* `else` that would log it. Otherwise Ok(()).
SecurityChecks(sudo, flags, efi, iommu) ==
    LET log == (IF sudo = "unset" THEN {"requires root privileges"} ELSE {})
                 \cup (IF flags = {} THEN {"no virtualization"} ELSE {})
                 \cup (IF efi = "missing" THEN {"not in UEFI mode"} ELSE {})
    IN  IF iommu = "missing"
        THEN [res |-> "panic", log |-> log]
        ELSE [res |-> "ok",
              log |-> log \cup (IF iommu = "empty" THEN {"no IOMMU"} ELSE {})]

\* security_checks(cpu_flags)?
MainSecurityChecks ==
    Step("security", "qemu_repo",
         {SecurityChecks(sudo, flags, efi, iommu).res :
            sudo \in SudoUser, flags \in CpuFlagSets, efi \in EfiDir,
            iommu \in IommuDir})

\* The Repo values: std::fs::read("./<name>.patch").unwrap().
MainQemuRepo == Step("qemu_repo", "qemu_clone", {"ok", "panic"})
MainEdk2Repo == Step("edk2_repo", "edk2_clone", {"ok", "panic"})

\* The error of a phase is dropped and main goes on.
Try_Ignored(res, next) == next

\* `?` on a phase in main: on Ok the next statement, otherwise main returns
\* the error.
Try(res, next) == IF res = "Ok" THEN next ELSE "exit_err"

SetTree(t, tree) ==
    /\ dir' = [dir EXCEPT ![t] = tree.dir]
    /\ files' = [files EXCEPT ![t] = tree.files]
    /\ marker' = [marker EXCEPT ![t] = tree.marker]
    /\ nomatch' = [nomatch EXCEPT ![t] = tree.marker /\ @]

\* repo_clone(repo), the clone and checkout part: `clone` is true.
CloneAndCheckout(t, tree, next) ==
    \E out \in CloneOutcomes :
        LET got == GitCloneCheckout(tree, t, out)
        IN  /\ SetTree(t, got.tree)
            /\ cloneAt' = tree.dir
            /\ acq' = [acq EXCEPT ![t] = got.res]
            /\ pc' = Try(got.res, next)

\* repo_clone(repo)
RepoClone(t, here, next) ==
    /\ pc = here
    /\ hadMarker' = marker[t]
    /\ UNCHANGED <<env, pat, bld, units>>
    /\ IF dir[t] = "absent"
       THEN /\ CloneAndCheckout(t, Tree(t), next)
            /\ input' = <<>>
            /\ prompt' = "none"
       ELSE \/ \* read_line failed: an error is logged and `clone` stays true
               /\ prompt' = "read_err"
               /\ input' = <<>>
               /\ CloneAndCheckout(t, Tree(t), next)
            \/ \E line \in Responses :
                 /\ prompt' = "answered"
                 /\ input' = line
                 /\ IF IsYes(line)
                    THEN \/ CloneAndCheckout(t, RemoveDirAll(Tree(t), t), next)
                         \/ \E markerGone \in BOOLEAN :
                              /\ SetTree(t, RemoveDirAllFailed(Tree(t),
                                                               markerGone))
                              /\ acq' = [acq EXCEPT ![t] = "RemoveError"]
                              /\ pc' = Try("RemoveError", next)
                              /\ cloneAt' = "none"
                    ELSE /\ acq' = [acq EXCEPT ![t] = "Ok"]
                         /\ pc' = Try("Ok", next)
                         /\ cloneAt' = "none"
                         /\ UNCHANGED disk

\* qemu_patch(repo) / edk2_patch(repo): the marker check, the substitutions
\* in order (each `?` returns at the first failing call), File::create of the
\* marker.
Patch(t, here, next) ==
    /\ pc = here
    /\ UNCHANGED <<run, procs, dir, acquireVars, bld, units>>
    /\ IF IsPatched(t)
       THEN /\ pat' = [pat EXCEPT ![t] = "AlreadyPatched"]
            /\ pc' = Try("AlreadyPatched", next)
            /\ UNCHANGED <<files, marker, nomatch, ioErrors>>
       ELSE \/ \* the i-th call fails
               \E i \in 1..Len(Subs(t)), io \in IoOutcomes \ {"ok"} :
                 LET before == ApplySubs(files[t], Subs(t), i - 1)
                     s == Subs(t)[i]
                     call == ReplaceStringInFile(before[s.file], s.old,
                                                 s.new, io)
                 IN  /\ ioErrors < MaxIoErrors
                     /\ ioErrors' = ioErrors + 1
                     /\ files' = [files EXCEPT ![t] =
                                    [before EXCEPT ![s.file] = call.content]]
                     /\ pat' = [pat EXCEPT ![t] = "IoError"]
                     /\ pc' = Try("IoError", next)
                     /\ UNCHANGED <<marker, nomatch>>
            \/ \* every call returns Ok
               /\ UNCHANGED ioErrors
               /\ files' = [files EXCEPT ![t] =
                              ApplySubs(files[t], Subs(t), Len(Subs(t)))]
               /\ \/ /\ marker' = [marker EXCEPT ![t] = TRUE]
                     /\ nomatch' = [nomatch EXCEPT ![t] =
                           NoMatch(files[t], Subs(t), Len(Subs(t))) # {}]
                     /\ pat' = [pat EXCEPT ![t] = "Ok"]
                     /\ pc' = Try("Ok", next)
                  \/ \* File::create of the marker fails
                     /\ pat' = [pat EXCEPT ![t] = "IoError"]
                     /\ pc' = Try("IoError", next)
                     /\ UNCHANGED <<marker, nomatch>>

\* The process table after the first k commands of cmds were spawned.
Spawned(table, cmds, k) ==
    [p \in DOMAIN table |->
        IF \E i \in 1..k : cmds[i] = p THEN "running" ELSE table[p]]

\* qemu_compile(repo, cpu_threads) / edk2_compile(repo, cpu_threads): each
\* command is spawned and not waited for; a spawn that fails returns (`?`).
Compile(t, here, next) ==
    /\ pc = here
    /\ UNCHANGED <<run, ioErrors, disk, acquireVars, pat, units>>
    /\ \E k \in 0..Len(BuildCmds(t)) :
         /\ procs' = Spawned(procs, BuildCmds(t), k)
         /\ IF k = Len(BuildCmds(t))
            THEN /\ bld' = [bld EXCEPT ![t] = "Ok"]
                 /\ pc' = Try("Ok", next)
            ELSE /\ bld' = [bld EXCEPT ![t] = "SpawnError"]
                 /\ pc' = Try("SpawnError", next)

\* install_packages(PACKAGES): apt is spawned and not waited for.
MainInstallPackages ==
    /\ pc = "install"
    /\ UNCHANGED <<run, ioErrors, disk, acquireVars, pat, bld, units>>
    /\ \/ /\ procs' = Spawned(procs, <<"apt">>, 1)
          /\ pc' = "exit_ok"
       \/ /\ pc' = "exit_err"
          /\ UNCHANGED procs

MainQemuClone == RepoClone("qemu", "qemu_clone", "qemu_patch")
MainQemuPatch == Patch("qemu", "qemu_patch", "qemu_compile")
MainQemuCompile == Compile("qemu", "qemu_compile", "edk2_repo")
MainEdk2Clone == RepoClone("edk2", "edk2_clone", "edk2_patch")
MainEdk2Patch == Patch("edk2", "edk2_patch", "edk2_compile")
MainEdk2Compile == Compile("edk2", "edk2_compile", "install")

\* A spawned child exits, with status 0 or not, whenever it is done: nothing
\* in the program waits for it.  Children are followed until main returns.
ProcExit ==
    /\ pc \notin Terminal
    /\ \E p \in Progs, st \in {"exit0", "exit1"} :
         /\ procs[p] = "running"
         /\ procs' = [procs EXCEPT ![p] = st]
    /\ UNCHANGED <<pc, run, ioErrors, disk, acquireVars, pat, bld, units>>

\* The operator starts the program again on the same disk.
NewRun ==
    /\ pc \in Terminal
    /\ procs' = [p \in Progs |-> "none"]
    /\ run < MaxRuns
    /\ run' = run + 1
    /\ pc' = "start"
    /\ input' = <<>>
    /\ prompt' = "none"
    /\ acq' = NoneYet
    /\ pat' = NoneYet
    /\ bld' = NoneYet
    /\ cloneAt' = "none"
    /\ hadMarker' = FALSE
    /\ UNCHANGED <<disk, ioErrors, units>>

Next ==
    \/ MainGetPciDevices
    \/ MainCpuInfo
    \/ MainSecurityChecks
    \/ MainQemuRepo
    \/ MainQemuClone
    \/ MainQemuPatch
    \/ MainQemuCompile
    \/ MainEdk2Repo
    \/ MainEdk2Clone
    \/ MainEdk2Patch
    \/ MainEdk2Compile
    \/ MainInstallPackages
    \/ ProcExit
    \/ NewRun

Spec == Init /\ [][Next]_vars

----------------------------------------------------------------------------
(* replace_string_in_file on its own: one file, one substitution, called   *)
(* up to MaxCalls times on the file the previous call left.                *)

MaxLen == 3
MaxPat == 2
MaxCalls == 2

SeqsUpTo(S, n) == UNION {[1..k -> S] : k \in 0..n}

pipeline == <<pc, run, disk, procs, acquireVars, pat, bld, ioErrors>>

InitReplace ==
    /\ InitPipeline
    /\ pci = NoPci
    /\ \E c \in SeqsUpTo({"a", "b"}, MaxLen),
          o \in SeqsUpTo({"a", "b"}, MaxPat) \ {<<>>},
          n \in SeqsUpTo({"a", "b"}, MaxPat) :
          rep = [NoRep EXCEPT !.file = c, !.old = o, !.new = n]

ReplaceCall ==
    /\ rep.calls < MaxCalls
    /\ \E io \in IoOutcomes :
         LET r == ReplaceStringInFile(rep.file, rep.old, rep.new, io)
         IN  rep' = [rep EXCEPT !.file = r.content, !.res = r.res,
                                !.calls = @ + 1, !.io = io,
                                !.found = Contains(rep.file, rep.old),
                                !.before = rep.file]
    /\ UNCHANGED <<pipeline, pci>>

NextReplace == ReplaceCall

SpecReplace == InitReplace /\ [][NextReplace]_vars

----------------------------------------------------------------------------
(* get_pci_devices: the parsing of the output of lspci -vmm                *)

\* PciDevice::default()
DefaultPciDevice ==
    [bus |-> 0, device |-> 0, function |-> 0, class |-> <<>>,
     vendor |-> <<>>, device_name |-> <<>>, svendor |-> <<>>,
     sdevice |-> <<>>, iommugroup |-> 0]

\* str::trim_end_matches('\n')
RECURSIVE TrimEndNewlines(_)
TrimEndNewlines(s) ==
    IF s # <<>> /\ s[Len(s)] = "\n"
    THEN TrimEndNewlines(SubSeq(s, 1, Len(s) - 1)) ELSE s

\* str::split(sep) for a non-empty separator: the pieces between the
\* non-overlapping occurrences found left to right; `acc` is the piece being
\* read.  The empty string splits into one empty piece.
RECURSIVE SplitStr(_, _, _)
SplitStr(s, sep, acc) ==
    IF s = <<>> THEN <<acc>>
    ELSE IF Len(s) >= Len(sep) /\ SubSeq(s, 1, Len(sep)) = sep
    THEN <<acc>> \o SplitStr(SubSeq(s, Len(sep) + 1, Len(s)), sep, <<>>)
    ELSE SplitStr(Tail(s), sep, Append(acc, s[1]))

\* str::split(|c| c == '.' || c == ':')
RECURSIVE SplitChars(_, _, _)
SplitChars(s, seps, acc) ==
    IF s = <<>> THEN <<acc>>
    ELSE IF s[1] \in seps
    THEN <<acc>> \o SplitChars(Tail(s), seps, <<>>)
    ELSE SplitChars(Tail(s), seps, Append(acc, s[1]))

StripCr(l) ==
    IF l # <<>> /\ l[Len(l)] = "\r" THEN SubSeq(l, 1, Len(l) - 1) ELSE l

\* str::lines(): the pieces between line feeds, without a final empty piece
\* and without the carriage return that ends a piece.
Lines(s) ==
    LET pieces == SplitStr(s, <<"\n">>, <<>>)
        kept == IF pieces[Len(pieces)] = <<>>
                THEN SubSeq(pieces, 1, Len(pieces) - 1) ELSE pieces
    IN  [i \in 1..Len(kept) |-> StripCr(kept[i])]

\* str::split_whitespace(): the non-empty runs of non-whitespace.
RECURSIVE SplitWhitespace(_, _)
SplitWhitespace(s, acc) ==
    IF s = <<>> THEN (IF acc = <<>> THEN <<>> ELSE <<acc>>)
    ELSE IF s[1] \in Whitespace
    THEN (IF acc = <<>> THEN <<>> ELSE <<acc>>)
         \o SplitWhitespace(Tail(s), <<>>)
    ELSE SplitWhitespace(Tail(s), Append(acc, s[1]))

\* parts[1..].join(" ")
RECURSIVE JoinFrom(_, _)
JoinFrom(parts, i) ==
    IF i > Len(parts) THEN <<>>
    ELSE IF i = Len(parts) THEN parts[i]
    ELSE parts[i] \o <<" ">> \o JoinFrom(parts, i + 1)

DigitVal(c) ==
    CASE c = "0" -> 0 [] c = "1" -> 1 [] c = "2" -> 2 [] c = "3" -> 3
      [] c = "4" -> 4 [] c = "5" -> 5 [] c = "6" -> 6 [] c = "7" -> 7
      [] c = "8" -> 8 [] c = "9" -> 9
      [] c \in {"a", "A"} -> 10 [] c \in {"b", "B"} -> 11
      [] c \in {"c", "C"} -> 12 [] c \in {"d", "D"} -> 13
      [] c \in {"e", "E"} -> 14 [] c \in {"f", "F"} -> 15
      [] OTHER -> 99

RECURSIVE DigitsValue(_, _, _)
DigitsValue(ds, radix, acc) ==
    IF ds = <<>> THEN acc
    ELSE DigitsValue(Tail(ds), radix, acc * radix + DigitVal(ds[1]))

\* parse::<u8>() in place of from_str_radix(_, 16): the radix is ignored.
ParseU8Or0_Decimal(s, radix) ==
    LET ds == IF s # <<>> /\ s[1] = "+" THEN Tail(s) ELSE s
    IN  IF ds = <<>> \/ \E i \in 1..Len(ds) : DigitVal(ds[i]) >= 10
        THEN 0
        ELSE IF DigitsValue(ds, 10, 0) > 255 THEN 0
        ELSE DigitsValue(ds, 10, 0)

\* u8::from_str_radix(s, radix).unwrap_or(0), which value.parse::<u8>() is
\* for radix 10: an optional '+', at least one digit, only digits of the
\* radix, and a value that fits in 8 bits; anything else is an Err, hence 0.
ParseU8Or0(s, radix) ==
    LET ds == IF s # <<>> /\ s[1] = "+" THEN Tail(s) ELSE s
    IN  IF ds = <<>> \/ \E i \in 1..Len(ds) : DigitVal(ds[i]) >= radix
        THEN 0
        ELSE IF DigitsValue(ds, radix, 0) > 255 THEN 0
        ELSE DigitsValue(ds, radix, 0)

\* `_ => {}` replaced by an arm that starts the record over.
ParseLine_UnknownResets(dev, line) ==
    LET parts == SplitWhitespace(line, <<>>)
    IN  IF Len(parts) < 2 THEN dev
        ELSE
        LET key == parts[1]
            value == JoinFrom(parts, 2)
            bdf == SplitChars(value, {".", ":"}, <<>>)
        IN  CASE key = <<"S", "l", "o", "t", ":">> ->
                   IF Len(bdf) >= 3
                   THEN [dev EXCEPT !.bus = ParseU8Or0(bdf[1], 16),
                                    !.device = ParseU8Or0(bdf[2], 16),
                                    !.function = ParseU8Or0(bdf[3], 16)]
                   ELSE dev
              [] key = <<"C", "l", "a", "s", "s", ":">> ->
                   [dev EXCEPT !.class = value]
              [] key = <<"V", "e", "n", "d", "o", "r", ":">> ->
                   [dev EXCEPT !.vendor = value]
              [] key = <<"D", "e", "v", "i", "c", "e", ":">> ->
                   [dev EXCEPT !.device_name = value]
              [] key = <<"S", "V", "e", "n", "d", "o", "r", ":">> ->
                   [dev EXCEPT !.svendor = value]
              [] key = <<"S", "D", "e", "v", "i", "c", "e", ":">> ->
                   [dev EXCEPT !.sdevice = value]
              [] key = <<"I", "O", "M", "M", "U", "G", "r", "o", "u", "p",
                         ":">> ->
                   [dev EXCEPT !.iommugroup = ParseU8Or0(value, 10)]
              [] OTHER -> DefaultPciDevice

\* The body of `for line in device_block.lines()`: the record after the line.
ParseLine(dev, line) ==
    LET parts == SplitWhitespace(line, <<>>)
    IN  IF Len(parts) < 2 THEN dev
        ELSE
        LET key == parts[1]
            value == JoinFrom(parts, 2)
            bdf == SplitChars(value, {".", ":"}, <<>>)
        IN  CASE key = <<"S", "l", "o", "t", ":">> ->
                   IF Len(bdf) >= 3
                   THEN [dev EXCEPT !.bus = ParseU8Or0(bdf[1], 16),
                                    !.device = ParseU8Or0(bdf[2], 16),
                                    !.function = ParseU8Or0(bdf[3], 16)]
                   ELSE dev
              [] key = <<"C", "l", "a", "s", "s", ":">> ->
                   [dev EXCEPT !.class = value]
              [] key = <<"V", "e", "n", "d", "o", "r", ":">> ->
                   [dev EXCEPT !.vendor = value]
              [] key = <<"D", "e", "v", "i", "c", "e", ":">> ->
                   [dev EXCEPT !.device_name = value]
              [] key = <<"S", "V", "e", "n", "d", "o", "r", ":">> ->
                   [dev EXCEPT !.svendor = value]
              [] key = <<"S", "D", "e", "v", "i", "c", "e", ":">> ->
                   [dev EXCEPT !.sdevice = value]
              [] key = <<"I", "O", "M", "M", "U", "G", "r", "o", "u", "p",
                         ":">> ->
                   [dev EXCEPT !.iommugroup = ParseU8Or0(value, 10)]
              [] OTHER -> dev

RECURSIVE ParseLines(_, _, _)
ParseLines(dev, ls, i) ==
    IF i > Len(ls) THEN dev
    ELSE ParseLines(ParseLine(dev, ls[i]), ls, i + 1)

\* The body of `for device_block in device_blocks`: the record pushed.
ParseBlock(block) == ParseLines(DefaultPciDevice, Lines(block), 1)

\* output_str.trim_end_matches('\n').split("\n\n")
DeviceBlocks(text) == SplitStr(TrimEndNewlines(text), <<"\n", "\n">>, <<>>)

\* get_pci_devices() on the text lspci wrote: one record per block.
GetPciDevices(text) ==
    LET blocks == DeviceBlocks(text)
    IN  [i \in 1..Len(blocks) |-> ParseBlock(blocks[i])]

\* Number of lines of the listings tried.
MaxLines == 4

\* The lines the listings are made of.
PciLines ==
    { <<>>,
      <<"S", "l", "o", "t", ":", "\t", "0", "1", ":", "0", "2", ".", "3">>,
      <<"C", "l", "a", "s", "s", ":", "\t", "V", "G", "A", " ", " ", "c">>,
      <<"F", "o", "o", ":", " ", "x">>,
      <<"I", "O", "M", "M", "U", "G", "r", "o", "u", "p", ":", "\t", "1", "2">> }

\* Every line followed by a line feed.
RECURSIVE Unlines(_)
Unlines(ls) ==
    IF ls = <<>> THEN <<>> ELSE ls[1] \o <<"\n">> \o Unlines(Tail(ls))

\* The listings: up to MaxLines lines, the last with or without its line
\* feed.
PciTexts ==
    {Unlines(ls) : ls \in SeqsUpTo(PciLines, MaxLines)}
      \cup {SubSeq(Unlines(ls), 1, Len(Unlines(ls)) - 1) :
              ls \in SeqsUpTo(PciLines, MaxLines) \ {<<>>}}

SlotKey == <<"S", "l", "o", "t", ":", "\t">>

\* The slot addresses lspci prints, bus:device.function in hexadecimal, each
\* component with the value it stands for.
BusVals ==
    { [s |-> <<"0", "0">>, v |-> 0], [s |-> <<"0", "1">>, v |-> 1],
      [s |-> <<"1", "F">>, v |-> 31], [s |-> <<"a", "0">>, v |-> 160],
      [s |-> <<"f", "f">>, v |-> 255] }
DevVals ==
    { [s |-> <<"0", "0">>, v |-> 0], [s |-> <<"0", "2">>, v |-> 2],
      [s |-> <<"1", "f">>, v |-> 31] }
FnVals ==
    { [s |-> <<"0">>, v |-> 0], [s |-> <<"3">>, v |-> 3],
      [s |-> <<"7">>, v |-> 7] }

\* A one-line block "Slot:\t<value>".
SlotLine(value) == SlotKey \o value \o <<"\n">>

SlotValue(b, d, f) == b \o <<":">> \o d \o <<".">> \o f

\* Slot values with fewer than three components.
ShortSlots ==
    { <<"0", "1">>, <<"f", "f">>, <<"0", "1", ":", "0", "2">>,
      <<"0", "1", ".", "3">>, <<"1", "f", ":">> }

SlotTexts ==
    {SlotLine(SlotValue(b.s, d.s, f.s)) :
        b \in BusVals, d \in DevVals, f \in FnVals}
      \cup {SlotLine(m) : m \in ShortSlots}

\* IOMMU group numbers as lspci prints them, in decimal, each with the
\* number it stands for.
GroupVals ==
    { [s |-> <<"0">>, v |-> 0], [s |-> <<"7">>, v |-> 7],
      [s |-> <<"1", "2">>, v |-> 12], [s |-> <<"2", "5", "5">>, v |-> 255],
      [s |-> <<"2", "5", "6">>, v |-> 256],
      [s |-> <<"3", "0", "0">>, v |-> 300] }

\* A one-line block "IOMMUGroup:\t<value>".
GroupLine(value) ==
    <<"I", "O", "M", "M", "U", "G", "r", "o", "u", "p", ":", "\t">>
      \o value \o <<"\n">>

\* Values that are not a decimal unsigned integer.
NotDecimal == { <<"x">>, <<"-", "1">>, <<"1", "a">>, <<"1", " ", "2">> }

GroupTexts == {GroupLine(g.s) : g \in GroupVals}
                 \cup {GroupLine(x) : x \in NotDecimal}

InitPci ==
    /\ InitPipeline
    /\ rep = NoRep
    /\ \E text \in PciTexts \cup SlotTexts \cup GroupTexts :
          pci = [NoPci EXCEPT !.text = text]

PciCall ==
    /\ ~pci.done
    /\ pci' = [pci EXCEPT !.done = TRUE, !.devices = GetPciDevices(pci.text)]
    /\ UNCHANGED <<pipeline, rep>>

NextPci == PciCall

SpecPci == InitPci /\ [][NextPci]_vars

----------------------------------------------------------------------------
(* Properties                                                              *)

ClonePc(t) == IF t = "qemu" THEN "qemu_clone" ELSE "edk2_clone"
PatchPc(t) == IF t = "qemu" THEN "qemu_patch" ELSE "edk2_patch"

\* The tree of the last repo_clone call of this run.
LastCall == IF acq["edk2"] # "none" THEN "edk2" ELSE "qemu"

\* The operator's line is y or yes in any case, with whitespace around it.
SaysYes(line) ==
    \E i \in 1..Len(line), j \in 1..Len(line) :
        /\ i <= j
        /\ \A k \in 1..(i - 1) : line[k] \in Whitespace
        /\ \A k \in (j + 1)..Len(line) : line[k] \in Whitespace
        /\ \/ j = i /\ line[i] \in {"y", "Y"}
           \/ /\ j = i + 2
              /\ line[i] \in {"y", "Y"}
              /\ line[i + 1] \in {"e", "E"}
              /\ line[i + 2] \in {"s", "S"}

\* C1: when the qemu tree's Acquire or Patch phase failed (clone error,
\* checkout error, unreadable or unwritable patch target, AlreadyPatched),
\* the run still runs the edk2 tree's pipeline: at the end of the run
\* repo_clone was called for edk2.
C1_TreesIndependent ==
    (/\ pc \in Terminal
     /\ \/ acq["qemu"] \in {"CloneError", "CheckoutError"}
        \/ pat["qemu"] \in {"IoError", "AlreadyPatched"})
    => acq["edk2"] # "none"

\* C2: a patch phase entered while the tree's marker exists returns
\* AlreadyPatched and leaves the directory, every file and the marker as
\* they were.
C2_AlreadyPatchedChangesNothing ==
    [][\A t \in Trees :
         (pc = PatchPc(t) /\ pc' # pc /\ marker[t])
         => /\ pat'[t] = "AlreadyPatched"
            /\ dir' = dir
            /\ files' = files
            /\ marker' = marker]_vars

\* The edk2 patch phase found the marker of an earlier run, in a run whose
\* qemu tree was patched afresh.
C2_Witness ==
    /\ pat["edk2"] = "AlreadyPatched"
    /\ pat["qemu"] = "Ok"
    /\ marker["edk2"]
    /\ files["edk2"] = ApplySubs(Upstream("edk2"), Edk2Subs, Len(Edk2Subs))

\* C3: whenever a tree's marker exists, every substitution of the patch
\* phase that created it found its old text, and every file holds the new
\* text of each of its substitutions.
C3_MarkerMeansAllApplied ==
    \A t \in Trees :
        marker[t] =>
            /\ ~nomatch[t]
            /\ \A i \in 1..Len(Subs(t)) :
                 Contains(files[t][Subs(t)[i].file], Subs(t)[i].new)

\* C4: a call of replace_string_in_file whose file does not contain the old
\* text returns an error.
C4_NotFoundIsAnError ==
    (rep.calls > 0 /\ rep.io = "ok" /\ ~rep.found) => rep.res = "Err"

\* C5: when the directory exists and the operator's line is not y or yes,
\* repo_clone returns Ok, main goes on to the patch phase, nothing on disk
\* changes and no clone is started.
C5_DeclineLeavesTree ==
    [][\A t \in Trees :
         (/\ pc = ClonePc(t) /\ pc' # pc
          /\ dir[t] # "absent"
          /\ prompt' = "answered" /\ ~SaysYes(input'))
         => /\ acq'[t] = "Ok"
            /\ pc' = PatchPc(t)
            /\ dir' = dir
            /\ files' = files
            /\ marker' = marker
            /\ cloneAt' = "none"]_vars

\* The operator typed No at the prompt for a patched qemu tree, and main is
\* about to call qemu_patch on it.
C5_Witness ==
    /\ pc = "qemu_patch"
    /\ prompt = "answered"
    /\ input = <<"N", "o", "\n">>
    /\ acq["qemu"] = "Ok"
    /\ hadMarker /\ marker["qemu"]

\* C6: after a repo_clone that returned Ok on the operator's y or yes, the
\* clone started on an absent path, the tree has no marker until its patch
\* phase has run, and that patch phase does not return AlreadyPatched.
C6_RecloneDropsMarker ==
    \A t \in Trees :
        (/\ LastCall = t /\ acq[t] = "Ok"
         /\ prompt = "answered" /\ SaysYes(input))
        => /\ cloneAt = "absent"
           /\ pat[t] # "AlreadyPatched"
           /\ pat[t] = "none" => ~marker[t]

\* The operator typed yes for a tree that had its marker, and the patch
\* phase that followed applied the substitutions and created the marker.
C6_Witness ==
    /\ LastCall = "qemu"
    /\ acq["qemu"] = "Ok"
    /\ prompt = "answered" /\ SaysYes(input)
    /\ hadMarker
    /\ pat["qemu"] = "Ok" /\ marker["qemu"] /\ ~nomatch["qemu"]

\* C7: repo.path either does not exist or holds a tree checked out at the
\* tag.
C7_AbsentOrAtTag ==
    \A t \in Trees : dir[t] \in {"absent", "tagged"}

\* C8: when a compile function has returned, none of the processes it
\* spawned is still running, and it returned Ok only if each of them exited
\* with status 0.
C8_BuildWaits ==
    \A t \in Trees :
        bld[t] # "none" =>
            \A i \in 1..Len(BuildCmds(t)) :
                /\ procs[BuildCmds(t)[i]] # "running"
                /\ bld[t] = "Ok" => procs[BuildCmds(t)[i]] = "exit0"

\* C9: while main is in the edk2 tree's pipeline, no process spawned by
\* qemu_compile is running.
C9_PipelinesSequential ==
    pc \in {"edk2_clone", "edk2_patch", "edk2_compile"}
    => \A i \in 1..Len(BuildCmds("qemu")) :
          procs[BuildCmds("qemu")[i]] # "running"

\* A block starts at a character that is not a line feed and is the first
\* of the text or follows an empty line.
BlockStarts(text) ==
    {i \in 1..Len(text) :
        /\ text[i] # "\n"
        /\ \/ i = 1
           \/ text[i - 1] = "\n" /\ (i = 2 \/ text[i - 2] = "\n")}

\* C10: get_pci_devices yields exactly one record per non-empty
\* blank-line-delimited block of the listing.
C10_OneRecordPerBlock ==
    pci.done => Len(pci.devices) = Cardinality(BlockStarts(pci.text))

\* C11: for a Slot: value bus:device.function in hexadecimal the record's
\* bus, device and function are the three decoded components, in that order;
\* for a value with fewer than three components the three fields are 0.
C11_SlotDecoded ==
    pci.done =>
        /\ \A b \in BusVals, d \in DevVals, f \in FnVals :
             pci.text = SlotLine(SlotValue(b.s, d.s, f.s)) =>
                 /\ Len(pci.devices) = 1
                 /\ pci.devices[1].bus = b.v
                 /\ pci.devices[1].device = d.v
                 /\ pci.devices[1].function = f.v
        /\ \A m \in ShortSlots :
             pci.text = SlotLine(m) =>
                 /\ Len(pci.devices) = 1
                 /\ pci.devices[1].bus = 0
                 /\ pci.devices[1].device = 0
                 /\ pci.devices[1].function = 0

\* The listing "Slot:\t1F:1f.7" was parsed into bus 31, device 31,
\* function 7.
C11_Witness ==
    /\ pci.done
    /\ pci.text = SlotLine(<<"1", "F", ":", "1", "f", ".", "7">>)
    /\ pci.devices[1].bus = 31
    /\ pci.devices[1].device = 31
    /\ pci.devices[1].function = 7

\* What a block made of lines of PciLines must parse to: each recognized line
\* that occurs sets its own field, anything else sets nothing.
ExpectedOfBlock(text) ==
    LET has(l) == Contains(text, l)
        slot == has(<<"S", "l", "o", "t", ":", "\t", "0", "1", ":", "0", "2",
                      ".", "3">>)
    IN  [DefaultPciDevice EXCEPT
           !.bus = IF slot THEN 1 ELSE 0,
           !.device = IF slot THEN 2 ELSE 0,
           !.function = IF slot THEN 3 ELSE 0,
           !.class = IF has(<<"C", "l", "a", "s", "s", ":">>)
                     THEN <<"V", "G", "A", " ", "c">> ELSE <<>>,
           !.iommugroup = IF has(<<"I", "O", "M", "M", "U", "G", "r", "o",
                                   "u", "p", ":">>) THEN 12 ELSE 0]

\* A listing that is one block: no blank line in it.
OneBlock(text) ==
    /\ text \in PciTexts
    /\ text # <<>>
    /\ text[1] # "\n"
    /\ ~Contains(text, <<"\n", "\n">>)

FooLine == <<"F", "o", "o", ":", " ", "x", "\n">>

\* C12: a line whose key is not one of the seven recognized keys changes no
\* field, and a block without any recognized key still yields one record,
\* numeric fields 0 and text fields empty; the listing never fails.
C12_UnknownKeyIgnored ==
    (pci.done /\ OneBlock(pci.text)) =>
        pci.devices = <<ExpectedOfBlock(pci.text)>>

\* A block with an unrecognized line between a Slot: and an IOMMUGroup: line
\* was parsed into one record holding just what those two lines say.
C12_Witness ==
    /\ pci.done
    /\ pci.text = <<"S", "l", "o", "t", ":", "\t", "0", "1", ":", "0", "2",
                    ".", "3", "\n">> \o FooLine \o
                  <<"I", "O", "M", "M", "U", "G", "r", "o", "u", "p", ":",
                    "\t", "1", "2", "\n">>
    /\ pci.devices = <<[DefaultPciDevice EXCEPT !.bus = 1, !.device = 2,
                          !.function = 3, !.iommugroup = 12]>>

\* C13: whatever the probes find (svm/vmx, /sys/firmware/efi,
\* /sys/class/iommu/ with entries, empty or missing, SUDO_USER),
\* security_checks returns normally and main goes on to the source trees.
C13_ChecksNeverStopTheRun ==
    [][(pc = "security" /\ pc' # pc) => pc' = "qemu_repo"]_vars

\* C14: in one run and for each tree, the patch phase is invoked only after
\* the acquire phase returned success, and the build phase only after the
\* patch phase returned success, hence with the marker present; no build on
\* a tree whose patch phase failed or did not run.
C14_PhasesGated ==
    \A t \in Trees :
        /\ pat[t] # "none" => acq[t] = "Ok"
        /\ bld[t] # "none" => (pat[t] = "Ok" /\ marker[t])

\* A run that built qemu after its patch phase succeeded and stopped at the
\* failed patch phase of edk2 without building it.
C14_Witness ==
    /\ pc = "exit_err"
    /\ acq["qemu"] = "Ok" /\ pat["qemu"] = "Ok" /\ bld["qemu"] = "Ok"
    /\ acq["edk2"] = "Ok" /\ pat["edk2"] = "IoError" /\ bld["edk2"] = "none"

\* Where p first occurs in s (p occurs in s).
FirstAt(s, p) ==
    CHOOSE i \in 1..(Len(s) - Len(p) + 1) :
        /\ SubSeq(s, i, i + Len(p) - 1) = p
        /\ \A j \in 1..(i - 1) : SubSeq(s, j, j + Len(p) - 1) # p

\* s with its first occurrence of old replaced by new, the rest as it was.
ReplaceFirst(s, old, new) ==
    SubSeq(s, 1, FirstAt(s, old) - 1) \o new
      \o SubSeq(s, FirstAt(s, old) + Len(old), Len(s))

\* C15: a substitution replaces exactly one occurrence of the old text, the
\* first: after replace_string_in_file on a file that holds the old text,
\* everything outside the first occurrence is unchanged.
C15_ReplacesFirstOnly ==
    (rep.calls = 1 /\ rep.io = "ok" /\ rep.found) =>
        rep.file = ReplaceFirst(rep.before, rep.old, rep.new)

\* C16: over any sequence of runs on a tree that is not cloned again, runs
\* whose patch phase failed partway included, no substitution is applied a
\* second time to a file that carries its result: a new text that contains
\* its old text never occurs with the substitution applied to it once more.
C16_NeverDoubleApplied ==
    \A t \in Trees : \A i \in 1..Len(Subs(t)) :
        LET s == Subs(t)[i]
        IN  Contains(s.new, s.old) =>
                ~Contains(files[t][s.file], StrReplace(s.new, s.old, s.new))

\* The text of file f after the substitutions i..n of subs that name f were
\* made on it one after the other.
RECURSIVE InOrder(_, _, _, _, _)
InOrder(content, subs, f, i, n) ==
    IF i > n THEN content
    ELSE InOrder(IF subs[i].file = f
                 THEN StrReplace(content, subs[i].old, subs[i].new)
                 ELSE content,
                 subs, f, i + 1, n)

\* C17: in one patch phase the substitutions are made in the listed order,
\* each on the file as the previous one wrote it; when a target cannot be
\* read or written the phase returns the error at that substitution, no
\* later substitution is made and the marker is not created.
C17_InOrderStopAtFailure ==
    [][\A t \in Trees :
         (pc = PatchPc(t) /\ pc' # pc /\ ~marker[t]) =>
            LET subs == Subs(t)
                N == Len(subs)
            IN  \/ /\ pat'[t] = "Ok"
                   /\ marker'[t]
                   /\ \A f \in PatchFiles(t) :
                        files'[t][f] = InOrder(files[t][f], subs, f, 1, N)
                \/ /\ pat'[t] = "IoError"
                   /\ pc' = "exit_err"
                   /\ ~marker'[t]
                   /\ \E k \in 1..(N + 1) :
                        \A f \in PatchFiles(t) :
                           \/ files'[t][f] =
                                InOrder(files[t][f], subs, f, 1, k - 1)
                           \/ /\ k <= N
                              /\ f = subs[k].file
                              /\ files'[t][f] = <<>>]_vars

\* A patch phase of qemu that failed at a substitution of
\* hw/scsi/scsi-disk.c: the three substitutions of hw/i386/fw_cfg.c are in
\* the file, one on top of the other, nothing after them was made and there
\* is no marker.
C17_Witness ==
    /\ pat["qemu"] = "IoError"
    /\ ~marker["qemu"]
    /\ files["qemu"]["hw/i386/fw_cfg.c"] =
         InOrder(Upstream("qemu")["hw/i386/fw_cfg.c"], QemuSubs,
                 "hw/i386/fw_cfg.c", 1, 4)
    /\ files["qemu"]["hw/scsi/scsi-disk.c"] =
         Upstream("qemu")["hw/scsi/scsi-disk.c"]
    /\ files["qemu"]["target/i386/kvm/kvm.c"] =
         Upstream("qemu")["target/i386/kvm/kvm.c"]

\* C18: repo_clone never starts a clone into a directory that still exists:
\* on every path that reaches the clone (directory absent, the operator
\* answered yes, reading the answer failed) nothing is at repo.path when the
\* clone starts.
C18_CloneIntoAbsentDir == cloneAt \in {"none", "absent"}

\* Path p is root or lies under it.
Inside(root, p) ==
    /\ p.abs = root.abs
    /\ Len(p.comps) >= Len(root.comps)
    /\ SubSeq(p.comps, 1, Len(root.comps)) = root.comps

\* C19: every build command of a tree is started with a working directory
\* that is the tree's root or a directory under it; the target-specific
\* stage of edk2_compile runs in <repo.path>/OvmfPkg.
C19_BuildsInsideTree ==
    \A t \in Trees : \A i \in 1..Len(BuildCmds(t)) :
        procs[BuildCmds(t)[i]] # "none" => Inside(RepoPath(t), BuildCwds(t)[i])

\* C20: for an IOMMUGroup: line whose value is the decimal unsigned integer
\* n the record's iommugroup is n, 256 and above included.
C20_GroupIsTheNumber ==
    pci.done =>
        \A g \in GroupVals :
            pci.text = GroupLine(g.s) =>
                /\ Len(pci.devices) = 1
                /\ pci.devices[1].iommugroup = g.v

====
